---- MODULE Spec2Model ----
(***************************************************************************)
(* Model of naia's SequenceBuffer (shared/src/sequence_buffer.rs): a       *)
(* fixed-capacity store keyed by wrapping 16-bit sequence numbers, its     *)
(* comparator and its iterator; and of the type Manifest (src/manifest.rs).*)
(*                                                                         *)
(* A buffer is a record [sequence_num, entry_sequences, entries]; the two  *)
(* boxed slices are TLA+ sequences, slot i of the code is position i + 1.  *)
(* Every operation is an operator from a buffer (and arguments) to a       *)
(* record [buf, ret, abort]: the buffer afterwards, the returned value and *)
(* whether the call panicked.  The actions apply these operators to the    *)
(* variables.                                                              *)
(***************************************************************************)
EXTENDS Integers, Sequences, FiniteSets, TLC

VARIABLES
    buf,              \* the SequenceBuffer under test
    it,               \* the SequenceIterator borrowed from buf (at most one)
    last,             \* the last call: operation, result and, for the calls
                      \* that change the buffer, arguments (val of a clear:
                      \* the capacity before the call; had: exists(seq) before
                      \* the call, for clear: the buffer was not fresh)
    aborted,          \* TRUE once a call has panicked
    overflow_checks,  \* build profile: TRUE = debug (overflow panics)
    buf2,             \* second buffer of the lockstep run
    run,              \* the lockstep run of consecutive inserts
    manifest,         \* the Manifest under test
    registered        \* the register calls so far: type and identifier handed out

vars == <<buf, it, last, aborted, overflow_checks, buf2, run, manifest, registered>>

----------------------------------------------------------------------------
(* Bounds of the model *)

MaxCap == 3        \* capacities 0..MaxCap in Spec
MaxSeq == 3        \* sequence numbers 0..MaxSeq are call arguments
MaxBack == 1       \* so are the last MaxBack numbers below 65536
MaxVal == 2        \* payloads 1..MaxVal
MaxOverrun == 2    \* loop iterations followed after the step counter wrapped
MaxRunCap == 4     \* capacities 1..MaxRunCap in SpecRun
MaxRun == 9        \* length of a run of consecutive inserts
MaxCmp == 2        \* comparator arguments within MaxCmp of 0, 32768 and 65535
MaxTypes == 3      \* the types 1..MaxTypes are registered with the manifest
MaxRegs == 4       \* number of register calls on one manifest

(* Program constants *)

Modulus == 65536       \* SequenceNumber = u16
HalfRange == 32768
None == -1             \* Option::None of a slot tag or payload

SeqArgs == (0..MaxSeq) \cup ((Modulus - MaxBack)..(Modulus - 1))
Values == 1..MaxVal
U16 == 0..(Modulus - 1)

----------------------------------------------------------------------------
(* u16 arithmetic *)

wrapping_add(a, b) == (a + b) % Modulus

wrapping_sub(a, b) == (a - b + Modulus) % Modulus

as_u16(x) == x % Modulus

(* Sequence Comparator *)

\* faulty variant: comparison without wraparound
sequence_greater_than_plain(s1, s2) == s1 > s2

\* faulty variant: the half range itself is left out
sequence_greater_than_strict(s1, s2) ==
    ((s1 > s2) /\ (s1 - s2 < HalfRange)) \/ ((s1 < s2) /\ (s2 - s1 > HalfRange))

\* faulty variant: the half range counts on both sides
sequence_greater_than_both(s1, s2) ==
    ((s1 > s2) /\ (s1 - s2 <= HalfRange)) \/ ((s1 < s2) /\ (s2 - s1 >= HalfRange))

sequence_greater_than(s1, s2) ==
    ((s1 > s2) /\ (s1 - s2 <= HalfRange)) \/ ((s1 < s2) /\ (s2 - s1 > HalfRange))

sequence_less_than(s1, s2) == sequence_greater_than(s2, s1)

----------------------------------------------------------------------------
(* Sequence Buffer *)

len(b) == Len(b.entry_sequences)

with_capacity(size) ==
    [sequence_num |-> 0,
     entry_sequences |-> [i \in 1..size |-> None],
     entries |-> [i \in 1..size |-> None]]

sequence_num(b) == b.sequence_num

\* `sequence as usize % len` panics (division by zero) when len is 0
index_aborts(b) == len(b) = 0

index(b, sequence) == sequence % len(b)

Result(b, r, a) == [buf |-> b, ret |-> r, abort |-> a]

\* faulty variant of exists: an occupied slot answers for every number
exists_val_any_tag(b, s) == b.entry_sequences[index(b, s) + 1] # None

\* exists, get, get_mut and remove all start with index(): abort when it does
exists_val(b, s) ==
    LET t == b.entry_sequences[index(b, s) + 1]
    IN  IF t # None THEN t = s ELSE FALSE

exists(b, s) ==
    IF index_aborts(b) THEN Result(b, FALSE, TRUE)
    ELSE Result(b, exists_val(b, s), FALSE)

get_val(b, s) ==
    IF exists_val(b, s) THEN b.entries[index(b, s) + 1] ELSE None

get(b, s) ==
    IF index_aborts(b) THEN Result(b, None, TRUE)
    ELSE Result(b, get_val(b, s), FALSE)

get_mut(b, s) ==
    IF index_aborts(b) THEN Result(b, None, TRUE)
    ELSE Result(b, IF exists_val(b, s) THEN b.entries[index(b, s) + 1] ELSE None, FALSE)

\* faulty variant of remove: the slot tag is not cleared
remove_keep_tag(b, s) ==
    IF index_aborts(b) THEN Result(b, None, TRUE)
    ELSE IF exists_val(b, s)
         THEN Result([b EXCEPT !.entries[index(b, s) + 1] = None],
                     b.entries[index(b, s) + 1], FALSE)
         ELSE Result(b, None, FALSE)

remove(b, s) ==
    IF index_aborts(b) THEN Result(b, None, TRUE)
    ELSE IF exists_val(b, s)
         THEN Result([b EXCEPT !.entries[index(b, s) + 1] = None,
                               !.entry_sequences[index(b, s) + 1] = None],
                     b.entries[index(b, s) + 1], FALSE)
         ELSE Result(b, None, FALSE)

\* the numbers of lo..hi (u32) whose low 16 bits some slot is tagged with
stored_in_range(b, lo, hi) ==
    {x \in UNION {{b.entry_sequences[i], b.entry_sequences[i] + Modulus} :
                  i \in {j \in 1..len(b) : b.entry_sequences[j] # None}} :
        lo <= x /\ x <= hi}

\* for sequence in lo..=hi { self.remove(sequence as u16); }  (u32 range)
\* The numbers of the range that no slot is tagged with are passed over:
\* remove() of such a number finds exists() false and returns at once.
RECURSIVE remove_range(_, _, _)
remove_range(b, lo, hi) ==
    IF lo > hi THEN Result(b, None, FALSE)
    ELSE IF index_aborts(b) THEN Result(b, None, TRUE)
    ELSE LET stored == stored_in_range(b, lo, hi)
         IN  IF stored = {} THEN Result(b, None, FALSE)
             ELSE LET sequence == CHOOSE x \in stored : \A y \in stored : x <= y
                      r == remove(b, as_u16(sequence))
                  IN  IF r.abort THEN r ELSE remove_range(r.buf, sequence + 1, hi)

\* faulty variant of remove_entries: a span of exactly len is still removed
\* entry by entry
remove_entries_late_wipe(b, finish_sequence) ==
    LET start_sequence == b.sequence_num
        finish == IF finish_sequence < start_sequence
                  THEN finish_sequence + Modulus ELSE finish_sequence
    IN  IF finish - start_sequence <= len(b)
        THEN remove_range(b, start_sequence, finish)
        ELSE Result([b EXCEPT !.entries = [i \in 1..len(b) |-> None],
                              !.entry_sequences = [i \in 1..len(b) |-> None]],
                    None, FALSE)

remove_entries(b, finish_sequence) ==
    LET start_sequence == b.sequence_num
        finish == IF finish_sequence < start_sequence
                  THEN finish_sequence + Modulus ELSE finish_sequence
    IN  IF finish - start_sequence < len(b)
        THEN remove_range(b, start_sequence, finish)
        ELSE Result([b EXCEPT !.entries = [i \in 1..len(b) |-> None],
                              !.entry_sequences = [i \in 1..len(b) |-> None]],
                    None, FALSE)

\* faulty variant of advance_sequence: head is set to s, not s + 1
advance_sequence_no_incr(b, s) ==
    IF sequence_greater_than(wrapping_add(s, 1), b.sequence_num)
    THEN LET r == remove_entries(b, s)
         IN  Result([r.buf EXCEPT !.sequence_num = s], None, r.abort)
    ELSE Result(b, None, FALSE)

\* faulty variant of advance_sequence: the head moves on every call
advance_sequence_always(b, s) ==
    LET r == remove_entries(b, s)
    IN  Result([r.buf EXCEPT !.sequence_num = wrapping_add(s, 1)], None, r.abort)

advance_sequence(b, s) ==
    IF sequence_greater_than(wrapping_add(s, 1), b.sequence_num)
    THEN LET r == remove_entries(b, s)
         IN  Result([r.buf EXCEPT !.sequence_num = wrapping_add(s, 1)], None, r.abort)
    ELSE Result(b, None, FALSE)

oldest(b) == wrapping_sub(b.sequence_num, as_u16(len(b)))

\* the write of insert(), after the window was advanced
insert_write(b, s, entry) ==
    IF index_aborts(b) THEN Result(b, FALSE, TRUE)
    ELSE Result([b EXCEPT !.entry_sequences[index(b, s) + 1] = s,
                          !.entries[index(b, s) + 1] = entry],
                TRUE, FALSE)

\* faulty variant of insert: an entry already stored under s is kept
insert_keep_old(b, s, entry) ==
    IF sequence_less_than(s, wrapping_sub(b.sequence_num, as_u16(len(b))))
    THEN Result(b, FALSE, FALSE)
    ELSE LET a == advance_sequence(b, s)
         IN  IF a.abort THEN Result(a.buf, FALSE, TRUE)
             ELSE IF ~index_aborts(a.buf) /\ exists_val(a.buf, s)
                  THEN Result(a.buf, TRUE, FALSE)
                  ELSE insert_write(a.buf, s, entry)

\* faulty variant of insert: the staleness bound is one too low
insert_late_reject(b, s, entry) ==
    IF sequence_less_than(s, wrapping_sub(wrapping_sub(b.sequence_num, as_u16(len(b))), 1))
    THEN Result(b, FALSE, FALSE)
    ELSE LET a == advance_sequence(b, s)
         IN  IF a.abort THEN Result(a.buf, FALSE, TRUE)
             ELSE insert_write(a.buf, s, entry)

insert(b, s, entry) ==
    IF sequence_less_than(s, wrapping_sub(b.sequence_num, as_u16(len(b))))
    THEN Result(b, FALSE, FALSE)
    ELSE LET a == advance_sequence(b, s)
         IN  IF a.abort THEN Result(a.buf, FALSE, TRUE)
             ELSE insert_write(a.buf, s, entry)

\* faulty variant of clear: sequence_num is not reset
clear_keep_head(b) ==
    Result([sequence_num |-> b.sequence_num,
            entry_sequences |-> [i \in 1..len(b) |-> None],
            entries |-> [i \in 1..len(b) |-> None]], None, FALSE)

clear(b) ==
    LET size == len(b)
    IN  Result([sequence_num |-> 0,
                entry_sequences |-> [i \in 1..size |-> None],
                entries |-> [i \in 1..size |-> None]], None, FALSE)

\* faulty variant of remove_until: the range is oldest..=finish_sequence
remove_until_inclusive(b, finish_sequence) ==
    LET old == oldest(b)
    IN  IF old > finish_sequence THEN Result(b, None, FALSE)
        ELSE remove_range(b, old, finish_sequence)

\* for seq in oldest..finish_sequence { self.remove(seq); }
remove_until(b, finish_sequence) ==
    LET old == oldest(b)
    IN  IF old >= finish_sequence THEN Result(b, None, FALSE)
        ELSE remove_range(b, old, finish_sequence - 1)

----------------------------------------------------------------------------
(* Sequence Iterator *)

\* index: u16, count: usize.  A usize is kept as the representative of its
\* residue class nearest to 0, so usize::MAX - k is -(k + 1).
SequenceIterator_new(start, count) == [index |-> start, count |-> count]

iter(b) == SequenceIterator_new(oldest(b), len(b))

\* `self.count < 0` compares an unsigned value with 0: never true
usize_lt_zero(c) == FALSE

\* `self.count -= 1` overflows at 0: a panic with overflow checks (debug
\* profile), a wrap to usize::MAX without them (release profile)
count_decr_aborts(c, checks) == c = 0 /\ checks

count_decr(c) == c - 1

\* One pass through the body of the loop of next().
\* pc: "none" = returned None, "idle" = returned an item, "loop" = loops on
next_pass(b, i, checks) ==
    IF usize_lt_zero(i.count)
    THEN [iter |-> i, pc |-> "none", item |-> None, abort |-> FALSE]
    ELSE LET current_item == get(b, i.index)
         IN  IF current_item.abort
             THEN [iter |-> i, pc |-> "loop", item |-> None, abort |-> TRUE]
             ELSE IF count_decr_aborts(i.count, checks)
             THEN [iter |-> [i EXCEPT !.index = wrapping_add(i.index, 1)],
                   pc |-> "loop", item |-> None, abort |-> TRUE]
             ELSE [iter |-> [index |-> wrapping_add(i.index, 1),
                             count |-> count_decr(i.count)],
                   pc |-> IF current_item.ret # None THEN "idle" ELSE "loop",
                   item |-> current_item.ret,
                   abort |-> FALSE]

----------------------------------------------------------------------------
(* Manifest *)

TypeIds == 1..MaxTypes

EmptyMap == [k \in {} |-> None]

\* HashMap::insert: the value of an existing key is replaced
map_insert(m, k, v) == [x \in (DOMAIN m) \cup {k} |-> IF x = k THEN v ELSE m[x]]

Manifest_new ==
    [gaia_id_count |-> 111, gaia_id_map |-> EmptyMap, type_id_map |-> EmptyMap]

\* NetBase::to_type wraps a value in the variant of its type: the
\* variant is named by the TypeId
to_type(type_id) == type_id

\* ManifestType::optional_clone, implemented by the application: a duplicate
optional_clone(entity_type) == entity_type

\* `self.gaia_id_count += 1` on a u16 panics at 65535 with overflow checks
gaia_id_count_aborts(m, checks) == checks /\ m.gaia_id_count = Modulus - 1

register(m, type_id, checks) ==
    LET new_gaia_id == m.gaia_id_count
        stored == [m EXCEPT
                      !.type_id_map = map_insert(@, type_id, new_gaia_id),
                      !.gaia_id_map = map_insert(@, new_gaia_id, to_type(type_id))]
    IN  IF gaia_id_count_aborts(m, checks)
        THEN [manifest |-> stored, id |-> new_gaia_id, abort |-> TRUE]
        ELSE [manifest |-> [stored EXCEPT !.gaia_id_count = wrapping_add(@, 1)],
              id |-> new_gaia_id,
              abort |-> FALSE]

\* .expect() panics for a type that is not in type_id_map
get_gaia_id(m, type_id) ==
    IF type_id \in DOMAIN m.type_id_map
    THEN [ret |-> m.type_id_map[type_id], abort |-> FALSE]
    ELSE [ret |-> None, abort |-> TRUE]

create_type(m, gaia_id) ==
    IF gaia_id \in DOMAIN m.gaia_id_map
    THEN optional_clone(m.gaia_id_map[gaia_id])
    ELSE None

----------------------------------------------------------------------------
(* State machine of one buffer and its callers *)

NoIter == [active |-> FALSE, pc |-> "idle", index |-> 0, count |-> 0,
           item |-> None, advances |-> 0, yielded |-> <<>>]

\* ok: the bool a call returned, ret: the Option or number it returned; for
\* insert, which returns only a bool, ret is sequence_num() when it was called
Call(op, s, v, k, r, h) ==
    [op |-> op, seq |-> s, val |-> v, ok |-> k, ret |-> r, had |-> h]

NoCall == Call("new", None, None, FALSE, None, FALSE)

NoRun == [first |-> 0, step |-> 0, rets |-> <<>>, rets2 |-> <<>>]

\* exists(s) before the call, FALSE for a buffer without slots
Had(b, s) == ~index_aborts(b) /\ exists_val(b, s)

Init ==
    /\ \E size \in 0..MaxCap : buf = with_capacity(size)
    /\ it = NoIter
    /\ last = NoCall
    /\ aborted = FALSE
    /\ overflow_checks \in BOOLEAN
    /\ buf2 = with_capacity(0)
    /\ run = NoRun
    /\ manifest = Manifest_new
    /\ registered = <<>>

\* A call on the buffer happens while no iterator borrows it: a call that
\* needs &mut self cannot happen otherwise, and a call that needs &self
\* changes neither the buffer nor the iterator.
Idle == ~aborted /\ ~it.active

Frame == UNCHANGED <<overflow_checks, buf2, run, manifest, registered>>

Insert(s, v) ==
    /\ Idle
    /\ LET r == insert(buf, s, v)
       IN  /\ buf' = r.buf
           /\ aborted' = r.abort
           /\ last' = Call("insert", s, v, r.ret, sequence_num(buf), Had(buf, s))
    /\ UNCHANGED it
    /\ Frame

Remove(s) ==
    /\ Idle
    /\ LET r == remove(buf, s)
       IN  /\ buf' = r.buf
           /\ aborted' = r.abort
           /\ last' = Call("remove", s, None, FALSE, r.ret, Had(buf, s))
    /\ UNCHANGED it
    /\ Frame

RemoveUntil(f) ==
    /\ Idle
    /\ LET r == remove_until(buf, f)
       IN  /\ buf' = r.buf
           /\ aborted' = r.abort
           /\ last' = Call("remove_until", f, None, FALSE, None, r.buf # buf)
    /\ UNCHANGED it
    /\ Frame

Clear ==
    /\ Idle
    /\ LET r == clear(buf)
       IN  /\ buf' = r.buf
           /\ aborted' = r.abort
           /\ last' = Call("clear", None, len(buf), FALSE, None, buf # with_capacity(len(buf)))
    /\ UNCHANGED it
    /\ Frame

GetMut(s) ==
    /\ Idle
    /\ LET r == get_mut(buf, s)
       IN  /\ aborted' = r.abort
           /\ last' = Call("get_mut", None, None, FALSE, r.ret, FALSE)
    /\ UNCHANGED <<buf, it>>
    /\ Frame

Exists(s) ==
    /\ Idle
    /\ LET r == exists(buf, s)
       IN  /\ aborted' = r.abort
           /\ last' = Call("exists", None, None, r.ret, None, FALSE)
    /\ UNCHANGED <<buf, it>>
    /\ Frame

Get(s) ==
    /\ Idle
    /\ LET r == get(buf, s)
       IN  /\ aborted' = r.abort
           /\ last' = Call("get", None, None, FALSE, r.ret, FALSE)
    /\ UNCHANGED <<buf, it>>
    /\ Frame

Oldest ==
    /\ Idle
    /\ last' = Call("oldest", None, None, FALSE, oldest(buf), FALSE)
    /\ UNCHANGED <<buf, it, aborted>>
    /\ Frame

SequenceNum ==
    /\ Idle
    /\ last' = Call("sequence_num", None, None, FALSE, sequence_num(buf), FALSE)
    /\ UNCHANGED <<buf, it, aborted>>
    /\ Frame

Iter ==
    /\ Idle
    /\ LET i == iter(buf)
       IN  it' = [active |-> TRUE, pc |-> "idle", index |-> i.index,
                  count |-> i.count, item |-> None, advances |-> 0,
                  yielded |-> <<>>]
    /\ last' = Call("iter", None, None, FALSE, None, FALSE)
    /\ UNCHANGED <<buf, aborted>>
    /\ Frame

\* the caller calls next()
IterNext ==
    /\ ~aborted
    /\ it.active
    /\ it.pc = "idle"
    /\ it' = [it EXCEPT !.pc = "loop", !.item = None]
    /\ last' = Call("next", None, None, FALSE, None, FALSE)
    /\ UNCHANGED <<buf, aborted>>
    /\ Frame

\* one pass of the loop of next()
IterLoop ==
    /\ ~aborted
    /\ it.active
    /\ it.pc = "loop"
    /\ it.count > -MaxOverrun
    /\ LET p == next_pass(buf, [index |-> it.index, count |-> it.count],
                          overflow_checks)
       IN  /\ it' = [active |-> TRUE, pc |-> p.pc, index |-> p.iter.index,
                     count |-> p.iter.count, item |-> p.item,
                     advances |-> it.advances
                                  + (IF p.iter.index # it.index THEN 1 ELSE 0),
                     yielded |-> IF p.item # None
                                 THEN Append(it.yielded, it.index)
                                 ELSE it.yielded]
           /\ aborted' = p.abort
           /\ last' = Call("next", None, None, FALSE, p.item, FALSE)
    /\ UNCHANGED buf
    /\ Frame

\* the iterator goes out of scope
IterDrop ==
    /\ ~aborted
    /\ it.active
    /\ it.pc # "loop"
    /\ it' = NoIter
    /\ last' = Call("drop", None, None, FALSE, None, FALSE)
    /\ UNCHANGED <<buf, aborted>>
    /\ Frame

Next ==
    \/ \E s \in SeqArgs, v \in Values : Insert(s, v)
    \/ \E s \in SeqArgs : Remove(s)
    \/ \E f \in SeqArgs : RemoveUntil(f)
    \/ Clear
    \/ \E s \in SeqArgs : GetMut(s)
    \/ \E s \in SeqArgs : Exists(s)
    \/ \E s \in SeqArgs : Get(s)
    \/ Oldest
    \/ SequenceNum
    \/ Iter
    \/ IterNext
    \/ IterLoop
    \/ IterDrop

Spec == Init /\ [][Next]_vars

----------------------------------------------------------------------------
(* Lockstep run: two fresh buffers of one capacity are fed a run of        *)
(* consecutive sequence numbers, the first from run.first, the second from *)
(* run.first + capacity.                                                   *)

RunCaps == (1..MaxRunCap) \cup {HalfRange - 1, HalfRange, HalfRange + 1}

RunStarts == {0, 1, HalfRange - 1, HalfRange, Modulus - 2, Modulus - 1}

RunSeq(k) == wrapping_add(run.first, k)

RunSeq2(k) == wrapping_add(wrapping_add(run.first, as_u16(len(buf))), k)

RunInit ==
    /\ \E size \in RunCaps : buf = with_capacity(size) /\ buf2 = with_capacity(size)
    /\ \E f \in RunStarts : run = [first |-> f, step |-> 0, rets |-> <<>>, rets2 |-> <<>>]
    /\ it = NoIter
    /\ last = NoCall
    /\ aborted = FALSE
    /\ overflow_checks = FALSE
    /\ manifest = Manifest_new
    /\ registered = <<>>

RunInsert ==
    /\ ~aborted
    /\ run.step < MaxRun
    /\ LET v == 1 + (run.step % MaxVal)
           r == insert(buf, RunSeq(run.step), v)
           r2 == insert(buf2, RunSeq2(run.step), v)
       IN  /\ buf' = r.buf
           /\ buf2' = r2.buf
           /\ aborted' = (r.abort \/ r2.abort)
           /\ run' = [run EXCEPT !.step = @ + 1,
                                 !.rets = Append(@, r.ret),
                                 !.rets2 = Append(@, r2.ret)]
           /\ last' = Call("insert", RunSeq(run.step), v, r.ret, sequence_num(buf),
                            Had(buf, RunSeq(run.step)))
    /\ UNCHANGED <<it, overflow_checks, manifest, registered>>

RunNext == RunInsert

SpecRun == RunInit /\ [][RunNext]_vars

----------------------------------------------------------------------------
(* Calls of the two comparison functions *)

CmpArgs ==
    (0..MaxCmp) \cup ((HalfRange - MaxCmp)..(HalfRange + MaxCmp))
                \cup ((Modulus - 1 - MaxCmp)..(Modulus - 1))

CmpInit ==
    /\ buf = with_capacity(0)
    /\ buf2 = with_capacity(0)
    /\ run = NoRun
    /\ it = NoIter
    /\ last = NoCall
    /\ aborted = FALSE
    /\ overflow_checks = FALSE
    /\ manifest = Manifest_new
    /\ registered = <<>>

GreaterThan(a, b) ==
    /\ last' = Call("greater_than", a, b, sequence_greater_than(a, b), None, FALSE)
    /\ UNCHANGED <<buf, it, aborted, overflow_checks, buf2, run, manifest, registered>>

LessThan(a, b) ==
    /\ last' = Call("less_than", a, b, sequence_less_than(a, b), None, FALSE)
    /\ UNCHANGED <<buf, it, aborted, overflow_checks, buf2, run, manifest, registered>>

CmpNext ==
    \/ \E a \in CmpArgs, b \in CmpArgs : GreaterThan(a, b)
    \/ \E a \in CmpArgs, b \in CmpArgs : LessThan(a, b)

SpecCmp == CmpInit /\ [][CmpNext]_vars

----------------------------------------------------------------------------
(* SpecManifest: register, get_gaia_id and create_type calls on one        *)
(* manifest, at most MaxRegs register calls of the types 1..MaxTypes.      *)

\* the identifiers asked of create_type: around those handed out, and the
\* ends of the u16 range
GaiaIdArgs == {0, Modulus - 1} \cup (110..(111 + MaxRegs))

ManifestInit ==
    /\ manifest = Manifest_new
    /\ registered = <<>>
    /\ last = NoCall
    /\ aborted = FALSE
    /\ overflow_checks \in BOOLEAN
    /\ buf = with_capacity(0)
    /\ buf2 = with_capacity(0)
    /\ run = NoRun
    /\ it = NoIter

BufferFrame == UNCHANGED <<buf, it, overflow_checks, buf2, run>>

Register(type_id) ==
    /\ ~aborted
    /\ Len(registered) < MaxRegs
    /\ LET r == register(manifest, type_id, overflow_checks)
       IN  /\ manifest' = r.manifest
           /\ aborted' = r.abort
           /\ registered' = Append(registered, [type |-> type_id, id |-> r.id])
           /\ last' = Call("register", type_id, None, FALSE, r.id,
                            type_id \in DOMAIN manifest.type_id_map)
    /\ BufferFrame

GetGaiaId(type_id) ==
    /\ ~aborted
    /\ LET r == get_gaia_id(manifest, type_id)
       IN  /\ aborted' = r.abort
           /\ last' = Call("get_gaia_id", type_id, None, FALSE, r.ret, FALSE)
    /\ UNCHANGED <<manifest, registered>>
    /\ BufferFrame

CreateType(gaia_id) ==
    /\ ~aborted
    /\ last' = Call("create_type", gaia_id, None, FALSE, create_type(manifest, gaia_id), FALSE)
    /\ UNCHANGED <<manifest, registered, aborted>>
    /\ BufferFrame

ManifestNext ==
    \/ \E type_id \in TypeIds : Register(type_id)
    \/ \E type_id \in TypeIds : GetGaiaId(type_id)
    \/ \E gaia_id \in GaiaIdArgs : CreateType(gaia_id)

SpecManifest == ManifestInit /\ [][ManifestNext]_vars

----------------------------------------------------------------------------
(* Properties *)

Min(a, b) == IF a < b THEN a ELSE b

\* s lies in the retained cyclic window [head - C, head)
InWindow(b, s) == wrapping_sub(s, oldest(b)) < len(b)

\* the sequence numbers s with exists(s): a slot tag found at its own index
ExistsSet(b) ==
    {b.entry_sequences[i] : i \in {j \in 1..len(b) :
        b.entry_sequences[j] # None /\ exists_val(b, b.entry_sequences[j])}}

\* C1: in every state of a buffer of capacity C >= 1, every sequence number
\* for which exists is true lies in the window [head - C, head).
C1_ExistsInWindow ==
    (~aborted /\ len(buf) >= 1) => \A s \in ExistsSet(buf) : InWindow(buf, s)

\* C2: an insert(seq, v) whose seq is not cyclically older than head - C at
\* call time (capacity >= 1) returns true, and right afterwards exists(seq)
\* holds and get(seq) is v, also when seq was stored before.
C2_InsertAccepted ==
    [][(/\ last'.op = "insert"
        /\ len(buf) >= 1
        /\ ~sequence_less_than(last'.seq,
                               wrapping_sub(buf.sequence_num, as_u16(len(buf)))))
       => (/\ ~aborted'
           /\ last'.ok
           /\ exists(buf', last'.seq).ret
           /\ get(buf', last'.seq).ret = last'.val)]_vars

C2_Witness ==
    /\ last.op = "insert"
    /\ last.ok
    /\ last.had
    /\ get_val(buf, last.seq) = last.val

\* C3: an insert(seq, v) whose seq is cyclically older than head - C returns
\* false and leaves head and both slot arrays unchanged.
C3_InsertRejected ==
    [][(/\ last'.op = "insert"
        /\ sequence_less_than(last'.seq,
                              wrapping_sub(buf.sequence_num, as_u16(len(buf)))))
       => (/\ ~aborted'
           /\ ~last'.ok
           /\ buf' = buf)]_vars

C3_Witness ==
    /\ last.op = "insert"
    /\ ~last.ok
    /\ ExistsSet(buf) # {}

\* offsets from oldest() of the yielded sequence numbers
YieldOffsets == [k \in 1..Len(it.yielded) |-> wrapping_sub(it.yielded[k], oldest(buf))]

\* C4: a traversal yields the entries in ascending cyclic order from
\* oldest(), none twice and none outside [oldest(), head), and once the
\* index has advanced over the window it has yielded exactly the sequence
\* numbers for which exists is true.
C4_IterExact ==
    (it.active /\ ~aborted /\ len(buf) >= 1) =>
        /\ \A k \in 1..Len(it.yielded) : InWindow(buf, it.yielded[k])
        /\ \A k \in 1..(Len(it.yielded) - 1) : YieldOffsets[k] < YieldOffsets[k + 1]
        /\ (it.advances >= len(buf) =>
               {it.yielded[k] : k \in 1..Len(it.yielded)} = ExistsSet(buf))

\* C5: a traversal of a buffer of capacity C >= 1 never aborts and never
\* advances its index more than C times.
C5_IterTerminates ==
    (it.active /\ len(buf) >= 1) =>
        /\ ~aborted
        /\ it.advances <= len(buf)

\* C6: no call ever aborts, for any capacity 0..65535 and any argument.
C6_NoAbort == ~aborted

\* what C7 states after the inserts 0, 1, ..., n (n = run.step - 1)
ConsecutiveOutcome ==
    LET n == run.step - 1
        C == len(buf)
        m == Min(n + 1, C)
    IN  /\ \A k \in 1..run.step : run.rets[k] = TRUE
        /\ \A s \in U16 : exists_val(buf, s) <=> (n + 1 - m <= s /\ s <= n)
        /\ sequence_num(buf) = (n + 1) % Modulus
        /\ oldest(buf) = (n + 1 - C + Modulus) % Modulus

\* C7 (as claimed): from a fresh buffer of any capacity C >= 1, after the
\* inserts 0..n every insert returned true, exactly the last min(n+1, C)
\* exist, head is n + 1 and oldest() is n + 1 - C.
C7_ConsecutiveAnyCapacity ==
    (run.first = 0 /\ run.step >= 1) => ConsecutiveOutcome

\* C7 (amended): the same for a capacity 1 <= C <= 32767.
C7_ConsecutiveBelowHalf ==
    (run.first = 0 /\ run.step >= 1 /\ len(buf) < HalfRange) => ConsecutiveOutcome

C7_Witness ==
    /\ run.first = 0
    /\ len(buf) = 4
    /\ run.step = 5
    /\ ~exists_val(buf, 0)
    /\ exists_val(buf, 4)
    /\ oldest(buf) = 1

\* C8: in capacity-4 buffers the run 65534, 65535, 0, 1, 2 behaves as the
\* run 2, 3, 4, 5, 6 shifted by 4: same results of insert, same exists and
\* get answers after each step, no eviction in the first four steps, and
\* the fifth insert evicts exactly the oldest entry of each run.
C8_WrapEquivalence ==
    (len(buf) = 4 /\ run.first = Modulus - 2 /\ run.step <= 5) =>
        /\ run.rets = run.rets2
        /\ \A k \in 1..run.step : run.rets[k] = TRUE
        /\ \A s \in U16 :
              /\ exists_val(buf, s) = exists_val(buf2, wrapping_add(s, 4))
              /\ get_val(buf, s) = get_val(buf2, wrapping_add(s, 4))
        /\ ExistsSet(buf) = {RunSeq(k) : k \in (IF run.step = 5 THEN 1 ELSE 0)..(run.step - 1)}
        /\ ExistsSet(buf2) = {RunSeq2(k) : k \in (IF run.step = 5 THEN 1 ELSE 0)..(run.step - 1)}

C8_Witness ==
    /\ len(buf) = 4
    /\ run.first = Modulus - 2
    /\ run.step = 5
    /\ ExistsSet(buf) = {Modulus - 1, 0, 1, 2}
    /\ ExistsSet(buf2) = {3, 4, 5, 6}

\* C9: remove(seq) of an existing entry returns the stored value; afterwards
\* exists(seq) is false, get(seq) is absent and a second remove(seq) returns
\* absent and changes nothing.
C9_RemoveOnce ==
    [][(last'.op = "remove" /\ Had(buf, last'.seq))
       => (/\ ~aborted'
           /\ last'.ret # None
           /\ last'.ret = get(buf, last'.seq).ret
           /\ ~exists(buf', last'.seq).ret
           /\ get(buf', last'.seq).ret = None
           /\ remove(buf', last'.seq).ret = None
           /\ remove(buf', last'.seq).buf = buf')]_vars

C9_Witness ==
    /\ last.op = "remove"
    /\ last.had
    /\ last.ret \in Values
    /\ ~exists_val(buf, last.seq)

\* C10: after clear() head is 0 and every slot tag and value is empty, so
\* exists is false for every 16-bit sequence number and the buffer equals
\* the buffer with_capacity builds for the capacity it had before the call.
C10_ClearIsFresh ==
    (last.op = "clear") =>
        /\ ~aborted
        /\ sequence_num(buf) = 0
        /\ len(buf) = last.val
        /\ \A i \in 1..len(buf) :
              buf.entry_sequences[i] = None /\ buf.entries[i] = None
        /\ (len(buf) >= 1 => \A s \in U16 : ~exists(buf, s).ret)
        /\ buf = with_capacity(last.val)

C10_Witness ==
    /\ last.op = "clear"
    /\ last.had
    /\ len(buf) >= 1
    /\ buf = with_capacity(len(buf))

\* exactly one of three conditions holds
ExactlyOne(p, q, r) == (p /\ ~q /\ ~r) \/ (~p /\ q /\ ~r) \/ (~p /\ ~q /\ r)

\* C11: for the first argument a of a comparison and every 16-bit b (the
\* second argument of the call among them), exactly one of a = b,
\* greater_than(a, b), less_than(a, b) holds, also at distance 32768; the
\* call returned what the relation says.
C11_Trichotomy ==
    (last.op \in {"greater_than", "less_than"}) =>
        /\ \A b \in U16 :
              ExactlyOne(last.seq = b,
                         sequence_greater_than(last.seq, b),
                         sequence_less_than(last.seq, b))
        /\ (last.seq # last.val =>
              (last.ok <=> ~(IF last.op = "greater_than"
                             THEN sequence_less_than(last.seq, last.val)
                             ELSE sequence_greater_than(last.seq, last.val))))
        /\ (last.seq = last.val => ~last.ok)

C11_Witness ==
    /\ last.op = "less_than"
    /\ wrapping_sub(last.seq, last.val) = HalfRange
    /\ last.ok

\* the forward cyclic distance from b to a
Distance(a, b) == (a - b + Modulus) % Modulus

\* the relation as the design states it
AheadWithinHalf(a, b) ==
    Distance(a, b) \in 1..(HalfRange - 1) \/ (Distance(a, b) = HalfRange /\ a > b)

\* C14: greater_than(a, b) is true iff the forward distance (a - b) mod 65536
\* is in 1..32767, or is 32768 and a is numerically larger; at distance
\* 32768 the larger value is greater_than the smaller and never the reverse.
C14_GreaterThanFormula ==
    (last.op = "greater_than") =>
        /\ last.ok = AheadWithinHalf(last.seq, last.val)
        /\ \A b \in U16 :
              /\ sequence_greater_than(last.seq, b) = AheadWithinHalf(last.seq, b)
              /\ (Distance(last.seq, b) = HalfRange =>
                    /\ sequence_greater_than(last.seq, b) = (last.seq > b)
                    /\ sequence_greater_than(b, last.seq) = (b > last.seq))

C14_Witness ==
    /\ last.op = "greater_than"
    /\ Distance(last.seq, last.val) = HalfRange
    /\ last.seq > last.val
    /\ last.ok
    /\ ~sequence_greater_than(last.val, last.seq)

\* the call arguments of the model and the numbers one capacity before and
\* after each stored tag, which share the tag's slot
Probes(b) ==
    SeqArgs \cup UNION {{wrapping_add(b.entry_sequences[i], as_u16(len(b))),
                         wrapping_sub(b.entry_sequences[i], as_u16(len(b)))} :
                        i \in {j \in 1..len(b) : b.entry_sequences[j] # None}}

\* the tag of the slot that s maps to
SlotTag(b, s) == b.entry_sequences[index(b, s) + 1]

\* the sequence numbers stored in the slots
Tags(b) == {b.entry_sequences[i] : i \in {j \in 1..len(b) : b.entry_sequences[j] # None}}

\* when the slot of s holds another sequence number, exists(s) is false,
\* get(s) and get_mut(s) are absent and remove(s) returns absent and changes
\* nothing; get and get_mut return something only for a stored tag
AliasGuarded ==
    (len(buf) >= 1 /\ ~aborted) =>
        \A s \in Probes(buf) :
            /\ get_mut(buf, s).ret = get(buf, s).ret
            /\ (get(buf, s).ret # None => SlotTag(buf, s) = s)
            /\ (SlotTag(buf, s) \notin {None, s} =>
                  /\ ~exists(buf, s).ret
                  /\ get(buf, s).ret = None
                  /\ remove(buf, s).ret = None
                  /\ remove(buf, s).buf = buf)

\* a value that get(s) returns after a step was returned by get(s) before
\* it or was stored by the step's successful insert of exactly s, and a
\* successful insert(s, v) makes get(s) return v; a remove of a number that
\* does not exist returns absent and changes nothing
StoredByInsert ==
    (len(buf) >= 1 /\ ~aborted' /\ (buf' # buf \/ last'.op \in {"insert", "remove"})) =>
        /\ \A s \in Tags(buf') :
              \/ get(buf', s).ret = get(buf, s).ret
              \/ (/\ last'.op = "insert" /\ last'.ok
                  /\ last'.seq = s /\ last'.val = get(buf', s).ret)
        /\ (last'.op = "insert" /\ last'.ok =>
              get(buf', last'.seq).ret = last'.val)
        /\ (last'.op = "remove" /\ ~Had(buf, last'.seq) =>
              last'.ret = None /\ buf' = buf)

\* C12: in every state a value is readable under seq only through a slot
\* tagged seq (AliasGuarded), and over every step the readable value of seq
\* is the one its most recent successful insert stored (StoredByInsert).
C12_TagGuard == []AliasGuarded /\ [][StoredByInsert]_vars

C12_Witness ==
    /\ last.op = "remove"
    /\ ~last.had
    /\ len(buf) >= 1
    /\ SlotTag(buf, last.seq) \notin {None, last.seq}
    /\ last.ret = None

----------------------------------------------------------------------------
----------------------------------------------------------------------------
\* s lies in the plain numeric range [oldest(), finish)
InScan(b, finish, s) == oldest(b) <= s /\ s < finish

----------------------------------------------------------------------------
\* forward cyclic distance from the head at the call to the inserted number
Ahead(head, s) == wrapping_sub(s, head)

----------------------------------------------------------------------------
\* what C17 states about the step of an insert(seq, v) with seq inside the
\* window [head - C, head) of the buffer it is called on
InWindowInsertOutcome ==
    LET seq == last'.seq
        slot == index(buf, seq) + 1
    IN  /\ last'.ok
        /\ sequence_num(buf') = sequence_num(buf)
        /\ oldest(buf') = oldest(buf)
        /\ buf'.entry_sequences[slot] = seq
        /\ buf'.entries[slot] = last'.val
        /\ \A i \in 1..len(buf) :
              i # slot => /\ buf'.entry_sequences[i] = buf.entry_sequences[i]
                          /\ buf'.entries[i] = buf.entries[i]

\* C17 as stated: for every capacity, an insert(seq, v) with seq in
\* [head - C, head) returns true, leaves head and oldest() unchanged and
\* changes only the tag and value of slot seq mod C.
C17_InWindowInsertAnyCapacity ==
    [][(last'.op = "insert" /\ run'.step = run.step + 1
        /\ InWindow(buf, last'.seq)) => InWindowInsertOutcome]_vars

\* C17 amended: the same for a capacity 1 <= C <= 32768.
C17_InWindowInsertUpToHalf ==
    [][(last'.op = "insert" /\ run'.step = run.step + 1
        /\ InWindow(buf, last'.seq) /\ len(buf) <= HalfRange)
       => InWindowInsertOutcome]_vars

\* the second insert of the run 65534, 65535, ... into a fresh buffer: it
\* lands behind the head 0, next to the entry of 65534
C17_Witness ==
    /\ last.op = "insert" /\ last.ok /\ run.step = 2
    /\ len(buf) >= 2 /\ len(buf) <= HalfRange
    /\ last.seq = Modulus - 1
    /\ sequence_num(buf) = 0 /\ last.ret = 0
    /\ ExistsSet(buf) = {Modulus - 2, Modulus - 1}

----------------------------------------------------------------------------
\* the sequence numbers of the retained window [head - C, head)
Window(b) == {wrapping_add(oldest(b), k) : k \in 0..(len(b) - 1)}

\* two distinct sequence numbers of the window never map to the same slot
WindowSlotsDistinct ==
    (~aborted /\ len(buf) >= 1) =>
        \A s \in Window(buf) : \A t \in Window(buf) :
            s # t => index(buf, s) # index(buf, t)

\* a successful insert(t, v) keeps the entry of every other number that
\* existed before and lies in the window after the insert
InsertKeepsWindow ==
    (last'.op = "insert" /\ last'.ok /\ last' # last /\ len(buf) >= 1) =>
        \A s \in ExistsSet(buf) :
            (s # last'.seq /\ InWindow(buf', s)) =>
                /\ exists(buf', s).ret
                /\ get(buf', s).ret = get(buf, s).ret

\* C18: for every capacity C >= 1 two distinct sequence numbers of the
\* window [head - C, head) never share a slot, and a successful insert never
\* destroys the entry of another sequence number that is still inside the
\* window after the insert.
C18_NoCollisionInWindow == []WindowSlotsDistinct /\ [][InsertKeepsWindow]_vars

----------------------------------------------------------------------------
\* C19: in every state the two slot arrays have the same length and are
\* paired: the tag at index i is present iff the value at i is present, and
\* a present tag t has t mod C = i.
C19_SlotsPaired ==
    /\ Len(buf.entry_sequences) = Len(buf.entries)
    /\ \A i \in 1..len(buf) :
          /\ (buf.entry_sequences[i] = None) <=> (buf.entries[i] = None)
          /\ (buf.entry_sequences[i] # None =>
                index(buf, buf.entry_sequences[i]) + 1 = i)

\* after an insert that evicted by wiping all slots and then wrote its own:
\* one slot is filled and another one is empty
C19_Witness ==
    /\ last.op = "insert" /\ last.ok /\ last.had = FALSE
    /\ len(buf) >= 2
    /\ Ahead(last.ret, last.seq) >= len(buf)
    /\ \E i \in 1..len(buf) : buf.entry_sequences[i] # None /\ buf.entries[i] # None
    /\ \E i \in 1..len(buf) : buf.entry_sequences[i] = None /\ buf.entries[i] = None

----------------------------------------------------------------------------
\* the types registered so far
RegisteredTypes == {registered[k].type : k \in 1..Len(registered)}

\* the identifier a type received at its first register call
FirstId(type_id) ==
    registered[CHOOSE k \in 1..Len(registered) :
                  /\ registered[k].type = type_id
                  /\ \A j \in 1..(k - 1) : registered[j].type # type_id].id

\* the identifiers handed out so far
HandedOut == {registered[k].id : k \in 1..Len(registered)}

\* C20: after any sequence of register calls the identifiers were handed
\* out from 111 upward in the order of the calls, distinct types have
\* distinct identifiers, get_gaia_id(type) is the identifier the type
\* received at its first registration, every identifier of the id-to-type
\* map is the identifier of exactly one registered type, and create_type(id)
\* is absent for every identifier never handed out.
C20_StableIdentifiers ==
    ~aborted =>
        /\ \A k \in 1..Len(registered) : registered[k].id = 110 + k
        /\ \A t \in RegisteredTypes : \A u \in RegisteredTypes :
              t # u => get_gaia_id(manifest, t).ret # get_gaia_id(manifest, u).ret
        /\ \A t \in RegisteredTypes : get_gaia_id(manifest, t).ret = FirstId(t)
        /\ \A id \in DOMAIN manifest.gaia_id_map :
              Cardinality({t \in RegisteredTypes :
                              get_gaia_id(manifest, t).ret = id}) = 1
        /\ \A id \in U16 \ HandedOut : create_type(manifest, id) = None
====
